---- MODULE Spec2Model ----
(***************************************************************************)
(* igshelf: a run of downloader.Service.Download                           *)
(* (src/internal/downloader/downloader.go) against one of the two media    *)
(* sources selected in src/cmd/igshelf/main.go (zip archive or API).       *)
(*                                                                         *)
(* The main goroutine lists the timeline, stores it, then ranges over the  *)
(* channel mediac that the enqueue goroutine fills, acquiring a token of   *)
(* the semaphore sem before it starts a worker goroutine for each media.   *)
(* Enqueue goroutine and workers belong to one errgroup.                   *)
(***************************************************************************)
EXTENDS Integers, Sequences, FiniteSets

\* Bounds of the model.
MaxItems == 2      \* longest timeline (top-level media) a source yields
MaxWorkers == 2    \* largest value given to WithMaxWorkers
MaxEntries == 3    \* most entries of an archive's media.json
MaxPages == 3      \* most pages the API serves
MaxPageLen == 2    \* most media on one page
MaxRecalls == 2    \* most calls of Next() made after it has returned false

Sources == {"archive", "api"}

\* igshelf.Media, restricted to the fields Download reads.
Leaf(id, type, fname, tfname, tloc) ==
    [ID |-> id, Type |-> type, Filename |-> fname, ThumbnailFilename |-> tfname,
     ThumbnailLocation |-> tloc, Children |-> <<>>]

Album(id, fname, children) ==
    [ID |-> id, Type |-> "CAROUSEL_ALBUM", Filename |-> fname, ThumbnailFilename |-> "",
     ThumbnailLocation |-> "", Children |-> children]

\* What the archive iterator yields: leaves named after the archived file, and
\* albums it creates itself, which have no file of their own.
ArchivePool ==
    << Album("aalbum", "", << Leaf("a", "IMAGE", "202010_a.jpg", "", ""),
                               Leaf("b", "VIDEO", "202010_b.mp4", "", "") >>),
       Leaf("y", "IMAGE", "202006_y.jpg", "", ""),
       Leaf("z", "VIDEO", "202001_z.mp4", "", "") >>

\* What the API iterator yields: every media has a file name, videos have a cover.
ApiPool ==
    << Leaf("v", "VIDEO", "202010_v.mp4", "202010_v_cover.jpg", "t"),
       Album("p", "202006_p.jpg", << Leaf("q", "IMAGE", "202006_q.jpg", "", "") >>),
       Leaf("s", "IMAGE", "202001_s.jpg", "", "") >>

Pool(source) == IF source = "archive" THEN ArchivePool ELSE ApiPool

\* The subsequence of pool at the positions in idx, in pool order.
RECURSIVE Pick(_, _, _)
Pick(pool, idx, i) ==
    IF i > Len(pool) THEN <<>>
    ELSE (IF i \in idx THEN <<pool[i]>> ELSE <<>>) \o Pick(pool, idx, i + 1)

Timelines(source) ==
    { Pick(Pool(source), idx, 1) :
        idx \in { s \in SUBSET (1..Len(Pool(source))) : Cardinality(s) <= MaxItems } }

\* Every media of a timeline with its children, in the order the enqueue goroutine lines them up.
RECURSIVE Units(_)
Units(tl) ==
    IF tl = <<>> THEN <<>> ELSE <<Head(tl)>> \o Head(tl).Children \o Units(Tail(tl))

Range(s) == { s[i] : i \in DOMAIN s }

\* Names of the files a complete download of tl leaves in the content directory.
FilesOf(tl) ==
    { m.Filename : m \in { u \in Range(Units(tl)) : u.Filename # "" } }
    \cup { m.ThumbnailFilename : m \in { u \in Range(Units(tl)) : u.ThumbnailFilename # "" } }

\* Errors.
Nil == [kind |-> "nil", id |-> ""]
Err(kind, id) == [kind |-> kind, id |-> id]
Canceled == Err("canceled", "")

VARIABLES
    source,      \* which igshelf.MediaService main has built
    maxWorkers,  \* Service.maxWorkers
    src,         \* the media the source's iterator has to yield
    disk,        \* names of the files present in contentDirPath
    pc,          \* position of the main goroutine in Download
    itCursor,    \* iterator: how many media of src it has yielded
    itErr,       \* iterator: Err() is non-nil
    itCurrent,   \* iterator: what Media() returns
    yielded,     \* history: the media returned by Media() after each Next() that returned true
    timeline,    \* Download's timeline slice
    stored,      \* history: the arguments of the db.Store calls
    storeErr,    \* db.Store returned an error
    cancelled,   \* the context given to Download is cancelled (signal)
    gcancel,     \* the errgroup has cancelled its context
    gErr,        \* errgroup: the error Wait returns
    firstFatal,  \* history: the first non-nil error a goroutine of the group returned
    enqI, enqJ,  \* enqueue goroutine: position in timeline / in timeline[enqI].Children (0: the media itself)
    enqState,    \* enqueue goroutine: "off", "run", "done"
    mediac,      \* buffered channel of media
    cur,         \* the media the main goroutine has received and not yet handed to a worker
    sem,         \* number of tokens in Service.sem
    workers,     \* the worker goroutines in the order they were started
    ret,         \* what Download returned
    rerun,       \* the program is run a second time on the same source and directory
    sigPending   \* history: the signal came while the enqueue goroutine still had media to send

\* The state of an iterator used on its own (archive.MediaIter or instagram.MediaIter).
VARIABLES
    kind,        \* "archive" or "instagram"; "none" when no iterator is looked at
    manifest,    \* archive: media.json of the zip file
    arErr,       \* archive MediaIter.err
    arCursor,    \* archive MediaIter.cursor
    arCurrent,   \* archive MediaIter.current
    arTimeline,  \* archive MediaIter.timeline
    pages,       \* instagram: the pages of media the API serves
    igErr,       \* instagram MediaIter.err
    igCursor,    \* instagram MediaIter.cursor
    igBatch,     \* instagram MediaIter.batch
    igAfter,     \* instagram: the "after" query parameter kept by the fetch closure
    requests,    \* history: number of page requests sent to the API
    fetches,     \* history: number of calls of the fetch closure
    iterCtxDone, \* the context given to List is cancelled
    ipc,         \* "list" before List is called, "iter" after
    lastNext,    \* what the last call of Next() returned: "none", "true", "false"
    got,         \* history: Media() after each Next() that returned true
    recalls      \* history: number of calls of Next() made after it had returned false

dlVars == <<source, maxWorkers, src, disk, pc, itCursor, itErr, itCurrent, yielded, timeline,
            stored, storeErr, cancelled, gcancel, gErr, firstFatal, enqI, enqJ, enqState,
            mediac, cur, sem, workers, ret, rerun, sigPending>>

iterVars == <<kind, manifest, arErr, arCursor, arCurrent, arTimeline, pages, igErr, igCursor,
              igBatch, igAfter, requests, fetches, iterCtxDone, ipc, lastNext, got, recalls>>

vars == <<dlVars, iterVars>>

NoMedia == Leaf("", "", "", "", "")
NotReturned == Err("running", "")

\* igshelf.Media as the iterators build it (Permalink is left out: nothing reads it).
Media(id, type, caption, takenAt, loc, tloc, fname, tfname, children) ==
    [ID |-> id, Type |-> type, Caption |-> caption, TakenAt |-> takenAt, Location |-> loc,
     ThumbnailLocation |-> tloc, Filename |-> fname, ThumbnailFilename |-> tfname,
     Children |-> children]

\* A nil *igshelf.Media.
NilMedia == Media("", "nil", "", 0, "", "", "", "", <<>>)

\* media.json: whether the zip file has it, whether it can be opened and decoded, its entries.
Manifest(found, decodes, entries) == [found |-> found, decodes |-> decodes, entries |-> entries]

\* The "after" query parameter: whether it is set, and the page it points to (0: the empty string).
AfterParam(set, val) == [set |-> set, val |-> val]

\* An iterator before List is called.
IterStart ==
    /\ arErr = Nil
    /\ arCursor = 0
    /\ arCurrent = NilMedia
    /\ arTimeline = <<>>
    /\ igErr = Nil
    /\ igCursor = 0
    /\ igBatch = <<>>
    /\ igAfter = AfterParam(FALSE, 0)
    /\ requests = 0
    /\ fetches = 0
    /\ iterCtxDone = FALSE
    /\ ipc = "list"
    /\ lastNext = "none"
    /\ got = <<>>
    /\ recalls = 0

\* No iterator is looked at on its own during a Download run.
IterIdle ==
    /\ kind = "none"
    /\ manifest = Manifest(FALSE, FALSE, {})
    /\ pages = <<>>
    /\ IterStart

Init ==
    /\ IterIdle
    /\ source \in Sources
    /\ maxWorkers \in 0..MaxWorkers
    /\ src \in Timelines(source)
    /\ disk = {}
    /\ pc = "List"
    /\ itCursor = 0
    /\ itErr = FALSE
    /\ itCurrent = NoMedia
    /\ yielded = <<>>
    /\ timeline = <<>>
    /\ stored = <<>>
    /\ storeErr = FALSE
    /\ cancelled = FALSE
    /\ gcancel = FALSE
    /\ gErr = Nil
    /\ firstFatal = Nil
    /\ enqI = 1
    /\ enqJ = 0
    /\ enqState = "off"
    /\ mediac = <<>>
    /\ cur = NoMedia
    /\ sem = 0
    /\ workers = <<>>
    /\ ret = NotReturned
    /\ rerun = FALSE
    /\ sigPending = FALSE

(***************************************************************************)
(* Listing: iter := s.ig.List(ctx); for iter.Next() { append }; iter.Err() *)
(***************************************************************************)

\* s.ig.List(ctx). The archive service reads media.json here and keeps a failure in
\* iter.err; the API service only builds the iterator.
ListOutcomes(s) == IF s = "archive" THEN {FALSE, TRUE} ELSE {FALSE}

List ==
    /\ pc = "List"
    /\ \E e \in ListOutcomes(source) : itErr' = e
    /\ pc' = "Next"
    /\ UNCHANGED <<iterVars, rerun, sigPending, source, maxWorkers, src, disk, itCursor, itCurrent, yielded, timeline,
                   stored, storeErr, cancelled, gcancel, gErr, firstFatal, enqI, enqJ,
                   enqState, mediac, cur, sem, workers, ret>>

\* What one call of iter.Next() can do: "yield" the next media, "stop" (return false,
\* Err unchanged) or "fault" (return false, Err set).
\* archive: false when err is set or the context is done, false at the end of the timeline.
\* api: false when err is set; otherwise the next media of the batch, or a page fetch
\* that can fail, and does fail when it must send a request on a done context.
NextOutcomes(s, err, done, atEnd) ==
    IF s = "archive"
    THEN IF err \/ done THEN {"stop"}
         ELSE IF atEnd THEN {"stop"} ELSE {"yield"}
    ELSE IF err THEN {"stop"}
         ELSE IF atEnd THEN {"stop", "fault"} ELSE {"yield", "fault"}

IterNext ==
    /\ pc = "Next"
    /\ \E o \in NextOutcomes(source, itErr, cancelled, itCursor >= Len(src)) :
        IF o = "yield"
        THEN /\ itCursor' = itCursor + 1
             /\ itCurrent' = src[itCursor + 1]
             /\ yielded' = Append(yielded, src[itCursor + 1])
             /\ pc' = "Append"
             /\ UNCHANGED itErr
        ELSE /\ itErr' = (itErr \/ o = "fault")
             /\ pc' = "Err"
             /\ UNCHANGED <<itCursor, itCurrent, yielded>>
    /\ UNCHANGED <<iterVars, rerun, sigPending, source, maxWorkers, src, disk, timeline, stored, storeErr, cancelled,
                   gcancel, gErr, firstFatal, enqI, enqJ, enqState, mediac, cur, sem,
                   workers, ret>>

\* Variant of ListAppend: the media is put in front of the timeline.
ListAppendFront ==
    /\ pc = "Append"
    /\ timeline' = <<itCurrent>> \o timeline
    /\ pc' = "Next"
    /\ UNCHANGED <<iterVars, rerun, sigPending, source, maxWorkers, src, disk, itCursor, itErr, itCurrent,
                   yielded, stored, storeErr, cancelled, gcancel, gErr, firstFatal, enqI, enqJ,
                   enqState, mediac, cur, sem, workers, ret>>

\* timeline = append(timeline, iter.Media())
ListAppend ==
    /\ pc = "Append"
    /\ timeline' = Append(timeline, itCurrent)
    /\ pc' = "Next"
    /\ UNCHANGED <<iterVars, rerun, sigPending, source, maxWorkers, src, disk, itCursor, itErr, itCurrent, yielded,
                   stored, storeErr, cancelled, gcancel, gErr, firstFatal, enqI, enqJ,
                   enqState, mediac, cur, sem, workers, ret>>

\* Variant of ListErr: iter.Err() is not looked at.
ListErrIgnored ==
    /\ pc = "Err"
    /\ pc' = "Store"
    /\ UNCHANGED <<iterVars, rerun, sigPending, source, maxWorkers, src, disk, itCursor, itErr, itCurrent,
                   yielded, timeline, stored, storeErr, cancelled, gcancel, gErr, firstFatal,
                   enqI, enqJ, enqState, mediac, cur, sem, workers, ret>>

\* if iter.Err() != nil { return fmt.Errorf("failed to fetch the timeline: %w", iter.Err()) }
ListErr ==
    /\ pc = "Err"
    /\ IF itErr
       THEN /\ ret' = Err("list", "")
            /\ pc' = "Done"
       ELSE /\ pc' = "Store"
            /\ UNCHANGED ret
    /\ UNCHANGED <<iterVars, rerun, sigPending, source, maxWorkers, src, disk, itCursor, itErr, itCurrent, yielded,
                   timeline, stored, storeErr, cancelled, gcancel, gErr, firstFatal, enqI,
                   enqJ, enqState, mediac, cur, sem, workers>>

(***************************************************************************)
(* Persisting: s.db.Store(timeline), then the errgroup and the enqueue     *)
(* goroutine are set up.                                                   *)
(***************************************************************************)
\* Variant of Store: the download goes on after a failed db.Store.
StoreErrIgnored ==
    /\ pc = "Store"
    /\ stored' = Append(stored, timeline)
    /\ \E e \in BOOLEAN : storeErr' = e
    /\ enqState' = "run"
    /\ pc' = "Range"
    /\ UNCHANGED <<iterVars, rerun, sigPending, source, maxWorkers, src, disk, itCursor, itErr, itCurrent,
                   yielded, timeline, cancelled, gcancel, gErr, firstFatal, enqI, enqJ, mediac,
                   cur, sem, workers, ret>>

Store ==
    /\ pc = "Store"
    /\ stored' = Append(stored, timeline)
    /\ \E e \in BOOLEAN :
        /\ storeErr' = e
        /\ IF e
           THEN /\ ret' = Err("store", "")
                /\ pc' = "Done"
                /\ UNCHANGED enqState
           ELSE /\ enqState' = "run"
                /\ pc' = "Range"
                /\ UNCHANGED ret
    /\ UNCHANGED <<iterVars, rerun, sigPending, source, maxWorkers, src, disk, itCursor, itErr, itCurrent, yielded,
                   timeline, cancelled, gcancel, gErr, firstFatal, enqI, enqJ, mediac,
                   cur, sem, workers>>

(***************************************************************************)
(* The errgroup: the first non-nil error a goroutine returns is kept and   *)
(* cancels the group's context; ctx.Done() is also closed when the context *)
(* given to Download is cancelled.                                         *)
(***************************************************************************)
\* Variant of GroupErr: the error of the goroutine that returned last is kept.
GroupErrLast(g, err) == IF err # Nil THEN err ELSE g

GroupErr(g, err) == IF g = Nil THEN err ELSE g

CtxDone == cancelled \/ gcancel

\* A goroutine of the group returns err.
GoReturn(err) ==
    /\ gErr' = GroupErr(gErr, err)
    /\ gcancel' = (gcancel \/ err # Nil)
    /\ firstFatal' = IF firstFatal.kind = "nil" THEN err ELSE firstFatal

(***************************************************************************)
(* The enqueue goroutine: sends every media and its children to mediac,    *)
(* or returns ctx.Err() when it finds the context done.                    *)
(***************************************************************************)
\* Variant of CanSend: the buffer takes one media more than its capacity.
CanSendOneMore(c, cap) == Len(c) <= cap

\* A send on a buffered channel proceeds when the buffer has room.
CanSend(c, cap) == Len(c) < cap

\* Variant of EnqMedia: the album is sent in place of each of its children.
EnqMediaParent == timeline[enqI]

\* The media the enqueue goroutine is about to send: timeline[enqI] or one of its children.
EnqMedia == IF enqJ = 0 THEN timeline[enqI] ELSE timeline[enqI].Children[enqJ]

EnqSend ==
    /\ enqState = "run"
    /\ enqI <= Len(timeline)
    /\ CanSend(mediac, maxWorkers)
    /\ mediac' = Append(mediac, EnqMedia)
    /\ IF enqJ < Len(timeline[enqI].Children)
       THEN /\ enqJ' = enqJ + 1
            /\ UNCHANGED enqI
       ELSE /\ enqI' = enqI + 1
            /\ enqJ' = 0
    /\ UNCHANGED <<iterVars, rerun, sigPending, source, maxWorkers, src, disk, pc, itCursor, itErr, itCurrent, yielded,
                   timeline, stored, storeErr, cancelled, gcancel, gErr, firstFatal,
                   enqState, cur, sem, workers, ret>>

\* With maxWorkers = 0 mediac has no buffer: a send proceeds only together with the
\* receive of the main goroutine waiting in its range loop.
EnqHandoff ==
    /\ enqState = "run"
    /\ enqI <= Len(timeline)
    /\ maxWorkers = 0
    /\ pc = "Range"
    /\ cur' = EnqMedia
    /\ pc' = "Acquire"
    /\ IF enqJ < Len(timeline[enqI].Children)
       THEN /\ enqJ' = enqJ + 1
            /\ UNCHANGED enqI
       ELSE /\ enqI' = enqI + 1
            /\ enqJ' = 0
    /\ UNCHANGED <<iterVars, rerun, sigPending, source, maxWorkers, src, disk, itCursor, itErr, itCurrent, yielded,
                   timeline, stored, storeErr, cancelled, gcancel, gErr, firstFatal,
                   enqState, mediac, sem, workers, ret>>

\* case <-ctx.Done(): return ctx.Err(), and the deferred close(mediac).
EnqCancel ==
    /\ enqState = "run"
    /\ enqI <= Len(timeline)
    /\ CtxDone
    /\ enqState' = "done"
    /\ GoReturn(Canceled)
    /\ UNCHANGED <<iterVars, rerun, sigPending, source, maxWorkers, src, disk, pc, itCursor, itErr, itCurrent, yielded,
                   timeline, stored, storeErr, cancelled, enqI, enqJ, mediac, cur, sem,
                   workers, ret>>

\* return nil after the last media, and the deferred close(mediac).
EnqReturn ==
    /\ enqState = "run"
    /\ enqI > Len(timeline)
    /\ enqState' = "done"
    /\ GoReturn(Nil)
    /\ UNCHANGED <<iterVars, rerun, sigPending, source, maxWorkers, src, disk, pc, itCursor, itErr, itCurrent, yielded,
                   timeline, stored, storeErr, cancelled, enqI, enqJ, mediac, cur, sem,
                   workers, ret>>

(***************************************************************************)
(* The main goroutine: for m := range mediac { s.sem <- token{}; g.Go() }  *)
(***************************************************************************)
\* Variant of Recv: the media sent last is received first.
RecvLast ==
    /\ pc = "Range"
    /\ mediac # <<>>
    /\ cur' = mediac[Len(mediac)]
    /\ mediac' = SubSeq(mediac, 1, Len(mediac) - 1)
    /\ pc' = "Acquire"
    /\ UNCHANGED <<iterVars, rerun, sigPending, source, maxWorkers, src, disk, itCursor, itErr, itCurrent, yielded,
                   timeline, stored, storeErr, cancelled, gcancel, gErr, firstFatal, enqI,
                   enqJ, enqState, sem, workers, ret>>

\* m := <-mediac
Recv ==
    /\ pc = "Range"
    /\ mediac # <<>>
    /\ cur' = Head(mediac)
    /\ mediac' = Tail(mediac)
    /\ pc' = "Acquire"
    /\ UNCHANGED <<iterVars, rerun, sigPending, source, maxWorkers, src, disk, itCursor, itErr, itCurrent, yielded,
                   timeline, stored, storeErr, cancelled, gcancel, gErr, firstFatal, enqI,
                   enqJ, enqState, sem, workers, ret>>

\* Variant of RangeEnd: mediac is closed only after the last media was sent, not when the
\* enqueue goroutine returns on ctx.Done().
RangeEndCloseAtEnd ==
    /\ pc = "Range"
    /\ mediac = <<>>
    /\ enqState = "done"
    /\ enqI > Len(timeline)
    /\ pc' = "Wait"
    /\ UNCHANGED <<iterVars, rerun, sigPending, source, maxWorkers, src, disk, itCursor, itErr, itCurrent, yielded,
                   timeline, stored, storeErr, cancelled, gcancel, gErr, firstFatal, enqI,
                   enqJ, enqState, mediac, cur, sem, workers, ret>>

\* The range loop ends when mediac is closed and empty.
RangeEnd ==
    /\ pc = "Range"
    /\ mediac = <<>>
    /\ enqState = "done"
    /\ pc' = "Wait"
    /\ UNCHANGED <<iterVars, rerun, sigPending, source, maxWorkers, src, disk, itCursor, itErr, itCurrent, yielded,
                   timeline, stored, storeErr, cancelled, gcancel, gErr, firstFatal, enqI,
                   enqJ, enqState, mediac, cur, sem, workers, ret>>

\* Variant of CanAcquire: one token more than the capacity is let in.
CanAcquireOffByOne(n, cap) == n <= cap

\* s.sem <- token{} proceeds when sem holds fewer than cap(sem) = maxWorkers tokens.
CanAcquire(n, cap) == n < cap

NewWorker(m) ==
    [m |-> m, pc |-> "start", fetch |-> "none", thumb |-> FALSE, wrote |-> {}, err |-> Nil]

Acquire ==
    /\ pc = "Acquire"
    /\ CanAcquire(sem, maxWorkers)
    /\ sem' = sem + 1
    /\ workers' = Append(workers, NewWorker(cur))
    /\ cur' = NoMedia
    /\ pc' = "Range"
    /\ UNCHANGED <<iterVars, rerun, sigPending, source, maxWorkers, src, disk, itCursor, itErr, itCurrent, yielded,
                   timeline, stored, storeErr, cancelled, gcancel, gErr, firstFatal, enqI,
                   enqJ, enqState, mediac, ret>>

\* Variant of Wait: Download returns nil whatever the goroutines returned.
WaitNil ==
    /\ pc = "Wait"
    /\ enqState = "done"
    /\ \A k \in DOMAIN workers : workers[k].pc = "done"
    /\ ret' = Nil
    /\ gcancel' = TRUE
    /\ pc' = "Done"
    /\ UNCHANGED <<iterVars, rerun, sigPending, source, maxWorkers, src, disk, itCursor, itErr, itCurrent,
                   yielded, timeline, stored, storeErr, cancelled, gErr, firstFatal, enqI, enqJ,
                   enqState, mediac, cur, sem, workers>>

\* g.Wait() returns once the enqueue goroutine and every worker have returned.
Wait ==
    /\ pc = "Wait"
    /\ enqState = "done"
    /\ \A k \in DOMAIN workers : workers[k].pc = "done"
    /\ ret' = gErr
    /\ gcancel' = TRUE
    /\ pc' = "Done"
    /\ UNCHANGED <<iterVars, rerun, sigPending, source, maxWorkers, src, disk, itCursor, itErr, itCurrent, yielded,
                   timeline, stored, storeErr, cancelled, gErr, firstFatal, enqI, enqJ,
                   enqState, mediac, cur, sem, workers>>

(***************************************************************************)
(* A worker goroutine, started by g.Go for one media.                      *)
(***************************************************************************)
\* os.Stat: nil when the file is there, an error of kind ErrNotExist otherwise.
Stat(d, path) == IF path \in d THEN Nil ELSE Err("ENOENT", "")

\* Variant of IsExist: true when os.Stat found the file.
IsExistNil(err) == err = Nil

\* os.IsExist: whether err reports that a file already exists. nil does not.
IsExist(err) == err.kind = "EEXIST"

\* Variant of WReturn: the worker returns without taking its token out of sem.
WReturnKeepsToken(k, w, err) ==
    /\ workers' = [workers EXCEPT ![k] = [w EXCEPT !.pc = "done", !.err = err]]
    /\ sem' = sem
    /\ GoReturn(err)

\* The worker returns err: the deferred <-s.sem, then the errgroup sees err.
WReturn(k, w, err) ==
    /\ workers' = [workers EXCEPT ![k] = [w EXCEPT !.pc = "done", !.err = err]]
    /\ sem' = sem - 1
    /\ GoReturn(err)

\* if m.Filename == "" { return nil }; os.Stat; if os.IsExist(err) { return nil }
WStart(k) ==
    /\ workers[k].pc = "start"
    /\ IF workers[k].m.Filename = ""
       THEN WReturn(k, workers[k], Nil)
       ELSE IF IsExist(Stat(disk, workers[k].m.Filename))
            THEN WReturn(k, workers[k], Nil)
            ELSE /\ workers' = [workers EXCEPT ![k].pc = "fetch"]
                 /\ UNCHANGED <<sem, gErr, gcancel, firstFatal>>
    /\ UNCHANGED <<iterVars, rerun, sigPending, source, maxWorkers, src, disk, pc, itCursor, itErr, itCurrent, yielded,
                   timeline, stored, storeErr, cancelled, enqI, enqJ, enqState, mediac,
                   cur, ret>>

\* What s.ig.Download(ctx, m) can return: err says whether the error is non-nil,
\* thumb whether the thumbnail is non-nil.
\* archive: the file is in the zip or not; the context is not looked at; no thumbnail.
\* api: the HTTP requests carry ctx and fail once it is done; a thumbnail is
\* fetched when m.ThumbnailLocation is set.
DownloadOutcomes(s, m, done) ==
    IF s = "archive"
    THEN {[err |-> TRUE, thumb |-> FALSE], [err |-> FALSE, thumb |-> FALSE]}
    ELSE IF done
         THEN {[err |-> TRUE, thumb |-> FALSE]}
         ELSE {[err |-> TRUE, thumb |-> FALSE],
               [err |-> FALSE, thumb |-> (m.ThumbnailLocation # "")]}

\* Variant of FetchErr: the error of ig.Download is returned to the errgroup.
FetchErrPropagated(m) == Err("fetch", m.ID)

\* content, thumbnail, err := s.ig.Download(ctx, m); an error is logged and nil returned.
FetchErr(m) == Nil

\* Variant of WFetch: after an error the worker calls ig.Download again.
WFetchRetry(k) ==
    /\ workers[k].pc = "fetch"
    /\ \E r \in DownloadOutcomes(source, workers[k].m, CtxDone) :
        /\ workers' = [workers EXCEPT ![k].fetch = IF r.err THEN "err" ELSE "ok",
                                      ![k].thumb = r.thumb,
                                      ![k].pc = IF r.err THEN "fetch" ELSE "write"]
        /\ UNCHANGED <<sem, gErr, gcancel, firstFatal>>
    /\ UNCHANGED <<iterVars, rerun, sigPending, source, maxWorkers, src, disk, pc, itCursor, itErr, itCurrent, yielded,
                   timeline, stored, storeErr, cancelled, enqI, enqJ, enqState, mediac,
                   cur, ret>>

\* The call of s.ig.Download and the test of its error.
WFetch(k) ==
    /\ workers[k].pc = "fetch"
    /\ \E r \in DownloadOutcomes(source, workers[k].m, CtxDone) :
        IF r.err
        THEN WReturn(k, [workers[k] EXCEPT !.fetch = "err"], FetchErr(workers[k].m))
        ELSE /\ workers' = [workers EXCEPT ![k].fetch = "ok", ![k].thumb = r.thumb,
                                          ![k].pc = "write"]
             /\ UNCHANGED <<sem, gErr, gcancel, firstFatal>>
    /\ UNCHANGED <<iterVars, rerun, sigPending, source, maxWorkers, src, disk, pc, itCursor, itErr, itCurrent, yielded,
                   timeline, stored, storeErr, cancelled, enqI, enqJ, enqState, mediac,
                   cur, ret>>

\* Variant of WWriteContent: the thumbnail is written whether ig.Download returned one
\* or not.
WWriteContentThumbAlways(k) ==
    /\ workers[k].pc = "write"
    /\ \E ok \in BOOLEAN :
        IF ok
        THEN /\ disk' = disk \cup {workers[k].m.Filename}
             /\ workers' = [workers EXCEPT
                               ![k].wrote = @ \cup {workers[k].m.Filename},
                               ![k].pc = "thumb"]
             /\ UNCHANGED <<sem, gErr, gcancel, firstFatal>>
        ELSE /\ WReturn(k, workers[k], Err("content", workers[k].m.ID))
             /\ UNCHANGED disk
    /\ UNCHANGED <<iterVars, rerun, sigPending, source, maxWorkers, src, pc, itCursor, itErr, itCurrent, yielded,
                   timeline, stored, storeErr, cancelled, enqI, enqJ, enqState, mediac,
                   cur, ret>>

\* ioutil.WriteFile(contentPath, content, 0600) succeeds or fails.
WWriteContent(k) ==
    /\ workers[k].pc = "write"
    /\ \E ok \in BOOLEAN :
        IF ok
        THEN /\ disk' = disk \cup {workers[k].m.Filename}
             /\ IF workers[k].thumb
                THEN /\ workers' = [workers EXCEPT
                                       ![k].wrote = @ \cup {workers[k].m.Filename},
                                       ![k].pc = "thumb"]
                     /\ UNCHANGED <<sem, gErr, gcancel, firstFatal>>
                ELSE WReturn(k, [workers[k] EXCEPT !.wrote = @ \cup {workers[k].m.Filename}], Nil)
        ELSE /\ WReturn(k, workers[k], Err("content", workers[k].m.ID))
             /\ UNCHANGED disk
    /\ UNCHANGED <<iterVars, rerun, sigPending, source, maxWorkers, src, pc, itCursor, itErr, itCurrent, yielded,
                   timeline, stored, storeErr, cancelled, enqI, enqJ, enqState, mediac,
                   cur, ret>>

\* ioutil.WriteFile(thumbnailPath, thumbnail, 0600) succeeds or fails.
WWriteThumb(k) ==
    /\ workers[k].pc = "thumb"
    /\ \E ok \in BOOLEAN :
        IF ok
        THEN /\ disk' = disk \cup {workers[k].m.ThumbnailFilename}
             /\ WReturn(k, [workers[k] EXCEPT !.wrote = @ \cup {workers[k].m.ThumbnailFilename}], Nil)
        ELSE /\ WReturn(k, workers[k], Err("thumbnail", workers[k].m.ID))
             /\ UNCHANGED disk
    /\ UNCHANGED <<iterVars, rerun, sigPending, source, maxWorkers, src, pc, itCursor, itErr, itCurrent, yielded,
                   timeline, stored, storeErr, cancelled, enqI, enqJ, enqState, mediac,
                   cur, ret>>

(***************************************************************************)
(* main: SIGINT or SIGTERM cancels the context given to Download.          *)
(***************************************************************************)
EnqPending == enqState = "run" /\ enqI <= Len(timeline)

Signal ==
    /\ pc # "Done"
    /\ ~cancelled
    /\ cancelled' = TRUE
    /\ sigPending' = EnqPending
    /\ UNCHANGED <<iterVars, rerun, source, maxWorkers, src, disk, pc, itCursor, itErr, itCurrent, yielded,
                   timeline, stored, storeErr, gcancel, gErr, firstFatal, enqI, enqJ,
                   enqState, mediac, cur, sem, workers, ret>>

\* The program is started again with the same source and destination after a run
\* that has left every file of the timeline in the content directory.
Rerun ==
    /\ pc = "Done"
    /\ ~rerun
    /\ disk = FilesOf(src)
    /\ rerun' = TRUE
    /\ pc' = "List"
    /\ itCursor' = 0
    /\ itErr' = FALSE
    /\ itCurrent' = NoMedia
    /\ yielded' = <<>>
    /\ timeline' = <<>>
    /\ stored' = <<>>
    /\ storeErr' = FALSE
    /\ cancelled' = FALSE
    /\ gcancel' = FALSE
    /\ gErr' = Nil
    /\ firstFatal' = Nil
    /\ enqI' = 1
    /\ enqJ' = 0
    /\ enqState' = "off"
    /\ mediac' = <<>>
    /\ cur' = NoMedia
    /\ sem' = 0
    /\ workers' = <<>>
    /\ ret' = NotReturned
    /\ sigPending' = FALSE
    /\ UNCHANGED <<iterVars, source, maxWorkers, src, disk>>

Next ==
    \/ List
    \/ IterNext
    \/ ListAppend
    \/ ListErr
    \/ Store
    \/ EnqSend
    \/ EnqHandoff
    \/ EnqCancel
    \/ EnqReturn
    \/ Recv
    \/ RangeEnd
    \/ Acquire
    \/ Wait
    \/ \E k \in DOMAIN workers : WStart(k)
    \/ \E k \in DOMAIN workers : WFetch(k)
    \/ \E k \in DOMAIN workers : WWriteContent(k)
    \/ \E k \in DOMAIN workers : WWriteThumb(k)
    \/ Signal
    \/ Rerun

Spec == Init /\ [][Next]_vars

(***************************************************************************)
(* Properties of a Download run.                                           *)
(***************************************************************************)
\* Workers that hold a token of sem.
InFlight == { k \in DOMAIN workers : workers[k].pc # "done" }

\* Workers about to call, or inside, ig.Download.
Fetching == { k \in DOMAIN workers : workers[k].pc = "fetch" }

WriteFault(k) == workers[k].err.kind \in {"content", "thumbnail"}

\* db.Store was called once, with the timeline, and returned nil.
Persisted == stored = <<timeline>> /\ ~storeErr

\* The files in the content directory when the run began.
DiskAtStart == IF rerun THEN FilesOf(src) ELSE {}

\* C1: with worker limit n >= 1 the number of workers in flight (token acquired, not
\* yet released) never exceeds n; with n = 1 there are never two ig.Download calls
\* in flight at the same time.
C1_BoundedWorkers ==
    /\ Cardinality(InFlight) <= maxWorkers
    /\ maxWorkers = 1 => Cardinality(Fetching) <= 1

\* n = 1 and three media lined up: one in ig.Download, one held by the main goroutine
\* that waits for the token, one in the channel.
C1_Witness ==
    /\ maxWorkers = 1
    /\ pc = "Acquire"
    /\ Len(mediac) = 1
    /\ Fetching # {}

\* C2: when some fetches fail and others succeed, and there is neither a write fault
\* nor a cancellation, Download returns nil, a content file is written for every media
\* whose fetch succeeded and no file for a media whose fetch failed.
C2_PartialFailure ==
    (pc = "Done" /\ Persisted /\ ~cancelled /\ \A k \in DOMAIN workers : ~WriteFault(k))
    => /\ ret = Nil
       /\ \A k \in DOMAIN workers :
            /\ workers[k].fetch = "ok" =>
                 (workers[k].m.Filename \in workers[k].wrote /\ workers[k].m.Filename \in disk)
            /\ workers[k].fetch = "err" => workers[k].wrote = {}

\* A finished run without cancellation in which one fetch failed and another succeeded.
C2_Witness ==
    /\ pc = "Done"
    /\ ~cancelled
    /\ ret = Nil
    /\ \E j, k \in DOMAIN workers :
         /\ workers[j].fetch = "err"
         /\ workers[k].fetch = "ok"
         /\ workers[k].m.Filename \in disk

\* C3: in a second run against the same source and directory, after a first run that
\* wrote every content file, ig.Download is not called and no file is written.
C3_RerunSkipsAll ==
    rerun => \A k \in DOMAIN workers : workers[k].fetch = "none" /\ workers[k].wrote = {}

\* C4: when the iterator reports an error after Next returned false, Download returns
\* an error wrapping it, never calls db.Store, never calls ig.Download and writes no file.
C4_ListFault ==
    (itErr /\ pc \notin {"Next", "Err"})
    => /\ pc = "Done"
       /\ ret = Err("list", "")
       /\ stored = <<>>
       /\ workers = <<>>
       /\ enqState = "off"
       /\ disk = DiskAtStart

\* The iterator failed after it had yielded some media, and Download has returned.
C4_Witness ==
    /\ itErr
    /\ pc = "Done"
    /\ timeline # <<>>

\* C5: no ig.Download call and no file write happens before db.Store has returned
\* successfully; when db.Store fails, Download returns an error wrapping it and no
\* fetch or file write happens in that run.
C5_StoreFirst ==
    /\ (enqState # "off" \/ workers # <<>> \/ disk # DiskAtStart) => Persisted
    /\ storeErr => /\ pc = "Done"
                   /\ ret = Err("store", "")
                   /\ workers = <<>>
                   /\ enqState = "off"
                   /\ disk = DiskAtStart

\* db.Store failed on a timeline that has media to download.
C5_Witness ==
    /\ storeErr
    /\ pc = "Done"
    /\ timeline # <<>>

\* C6: when listing succeeds, db.Store is called exactly once, with exactly the media
\* Media() returned after each successful Next(), in that order.
C6_StoredAsYielded ==
    /\ Len(stored) <= 1
    /\ (pc \in {"Range", "Acquire", "Wait", "Done"} /\ ~itErr) => stored = <<yielded>>

\* A timeline of two media was listed and stored.
C6_Witness ==
    /\ Len(stored) = 1
    /\ Len(yielded) = 2
    /\ pc = "Range"

\* C7: when a content or thumbnail write fails in a worker, Download returns a non-nil
\* error, and what it returns is the first fatal error (write or cancellation) that a
\* goroutine of the run came back with.
C7_FirstFatal ==
    (pc = "Done" /\ Persisted)
    => /\ (\E k \in DOMAIN workers : WriteFault(k)) => ret # Nil
       /\ ret = firstFatal

\* Two workers failed to write, and Download has returned.
C7_Witness ==
    /\ pc = "Done"
    /\ \E j, k \in DOMAIN workers : j # k /\ WriteFault(j) /\ WriteFault(k)

\* C8: when the signal cancels the context while the enqueue goroutine still has media
\* to send, the goroutine sends nothing more and Download returns the cancellation error.
C8_EnqueueStops ==
    [][(sigPending /\ pc # "Done")
        => /\ <<enqI, enqJ>>' = <<enqI, enqJ>>
           /\ pc' = "Done" => ret' = Canceled]_vars

\* C9: once the shared context is cancelled during the download, by the signal or by
\* the error of a goroutine, no worker writes a file any more and no fetch that has
\* not started delivers content.
C9_WorkCancelled ==
    [][((sigPending \/ gcancel) /\ pc # "Done")
        => \A k \in DOMAIN workers :
             /\ workers'[k].wrote = workers[k].wrote
             /\ workers[k].fetch = "none" => workers'[k].fetch # "ok"]_vars

\* C10, as claimed: a run returns nil with the timeline persisted, or it returns an
\* error with no timeline persisted and no file written.
C10_AllOrNothing ==
    pc = "Done"
    => \/ ret = Nil /\ Persisted
       \/ /\ ret # Nil
          /\ ~Persisted
          /\ \A k \in DOMAIN workers : workers[k].wrote = {}

\* C10, amended: a run returns nil with the whole listed timeline persisted and every
\* media handed to a worker that returned nil; or an error of the listing, with
\* db.Store not called and no file written; or an error of db.Store, with no file
\* written; or a write or cancellation error of the download stage, with the timeline
\* persisted.
C10_Outcomes ==
    pc = "Done"
    => \/ /\ ret = Nil
          /\ Persisted
          /\ timeline = yielded
          /\ Len(workers) = Len(Units(timeline))
          /\ \A k \in DOMAIN workers : workers[k].err = Nil
       \/ /\ ret = Err("list", "")
          /\ stored = <<>>
          /\ workers = <<>>
          /\ disk = DiskAtStart
       \/ /\ ret = Err("store", "")
          /\ storeErr
          /\ workers = <<>>
          /\ disk = DiskAtStart
       \/ /\ ret.kind \in {"content", "thumbnail", "canceled"}
          /\ Persisted

\* Download has returned a content write error after another worker had written its file.
C10_Witness ==
    /\ pc = "Done"
    /\ ret.kind = "content"
    /\ \E k \in DOMAIN workers : workers[k].wrote # {}

(***************************************************************************)
(* The iterators on their own: archive.MediaIter and instagram.MediaIter   *)
(***************************************************************************)

\* The download run stands still while an iterator is looked at on its own.
DlIdle ==
    /\ source = "archive"
    /\ maxWorkers = 1
    /\ src = <<>>
    /\ disk = {}
    /\ pc = "Idle"
    /\ itCursor = 0
    /\ itErr = FALSE
    /\ itCurrent = NoMedia
    /\ yielded = <<>>
    /\ timeline = <<>>
    /\ stored = <<>>
    /\ storeErr = FALSE
    /\ cancelled = FALSE
    /\ gcancel = FALSE
    /\ gErr = Nil
    /\ firstFatal = Nil
    /\ enqI = 1
    /\ enqJ = 0
    /\ enqState = "off"
    /\ mediac = <<>>
    /\ cur = NoMedia
    /\ sem = 0
    /\ workers = <<>>
    /\ ret = NotReturned
    /\ rerun = FALSE
    /\ sigPending = FALSE

\* Publish dates, and the captions posts carry.
Times == {1, 2}
Captions == {"c", "x"}

\* TakenAt.Format("200601_"): year and month of the publish date (0 is the zero time.Time).
Format200601(t) == IF t = 0 THEN "000101_" ELSE IF t = 1 THEN "202009_" ELSE "202010_"

\* The media files an archive may list in media.json, under "photos" or under "videos".
RawPath(dir, base, ext) == [dir |-> dir, base |-> base, ext |-> ext]
RawFiles ==
    { [list |-> "photos", Path |-> RawPath("photos/202010/", "a", ".jpg")],
      [list |-> "videos", Path |-> RawPath("videos/202010/", "b", ".mp4")],
      [list |-> "photos", Path |-> RawPath("photos/202010/", "aalbum", ".jpg")],
      [list |-> "photos", Path |-> RawPath("photos/202010/", "z", ".jpg")] }

\* archive media: one entry of media.json.
RawMedia(f, caption, takenAt) ==
    [list |-> f.list, Path |-> f.Path, Caption |-> caption, TakenAt |-> takenAt]

\* The contents media.json may have: at most MaxEntries entries, each file listed once.
EntrySets ==
    UNION { { { RawMedia(f, g[f][1], g[f][2]) : f \in fs } : g \in [fs -> Captions \X Times] }
            : fs \in { x \in SUBSET RawFiles : Cardinality(x) <= MaxEntries } }

\* The archives: media.json missing, unreadable (an empty file is not JSON), or decoded.
ManifestPool ==
    { Manifest(FALSE, FALSE, {}), Manifest(TRUE, FALSE, {}) }
        \cup { Manifest(TRUE, TRUE, E) : E \in EntrySets }

\* filepath.Split(raw.Path), filepath.Ext(fname) and the fields List fills in.
FileName(path) == path.base \o path.ext
PathString(path) == path.dir \o path.base \o path.ext
ArchMedia(raw) ==
    Media(raw.Path.base,
          IF raw.list = "photos" THEN "IMAGE" ELSE "VIDEO",
          raw.Caption, raw.TakenAt, PathString(raw.Path), "",
          Format200601(raw.TakenAt) \o FileName(raw.Path), "", <<>>)

\* The less function given to sort.Slice: timeline[i].TakenAt.After(timeline[j].TakenAt).
LessBefore(a, b) == a.TakenAt < b.TakenAt
Less(a, b) == a.TakenAt > b.TakenAt

\* sort.Slice is not stable and media.json lists entries in any order: the result is any
\* arrangement of the entries in which no entry is less than one placed before it.
Arrangements(S) ==
    { t \in [1..Cardinality(S) -> S] : \A i, j \in 1..Cardinality(S) : t[i] = t[j] => i = j }
Sorted(t) == \A i, j \in 1..Len(t) : i < j => ~Less(t[j], t[i])
SortSlice(S) == { t \in Arrangements(S) : Sorted(t) }

\* What archive List leaves in the iterator: iter.err, or the sorted timeline.
ArchListNoError(m) ==
    { [err |-> Nil, timeline |-> t] : t \in SortSlice({ ArchMedia(raw) : raw \in m.entries }) }
ArchListOutcomes(m) ==
    IF ~m.found THEN { [err |-> Err("notfound", "media.json"), timeline |-> <<>>] }
    ELSE IF ~m.decodes THEN { [err |-> Err("decode", "media.json"), timeline |-> <<>>] }
    ELSE { [err |-> Nil, timeline |-> t] : t \in SortSlice({ ArchMedia(raw) : raw \in m.entries }) }

\* archive MediaService.List(ctx)
ArchList ==
    /\ kind = "archive"
    /\ ipc = "list"
    /\ \E o \in ArchListOutcomes(manifest) :
        /\ arErr' = o.err
        /\ arTimeline' = o.timeline
    /\ ipc' = "iter"
    /\ UNCHANGED <<dlVars, kind, manifest, arCursor, arCurrent, pages, igErr, igCursor, igBatch,
                   igAfter, requests, fetches, iterCtxDone, lastNext, got, recalls>>

\* it.timeline[i], the slice being indexed from 0.
At(t, i) == t[i + 1]

\* The loop condition of Next: same publish date and same caption.
SameRunTimeOnly(m, n) == m.TakenAt = n.TakenAt
SameRun(m, n) == m.TakenAt = n.TakenAt /\ m.Caption = n.Caption

\* for i := it.cursor + 1; i < len(it.timeline); i++ { ...; offset = i }
RECURSIVE Scan(_, _, _, _)
Scan(t, m, i, offset) ==
    IF i >= Len(t) THEN offset
    ELSE IF ~SameRun(m, At(t, i)) THEN offset
    ELSE Scan(t, m, i + 1, i)

\* it.timeline[it.cursor : offset+1]
AlbumChildrenShort(t, cursor, offset) == SubSeq(t, cursor + 1, offset)
AlbumChildren(t, cursor, offset) == SubSeq(t, cursor + 1, offset + 1)

\* Variant of Current: an album is built for a single entry as well.
CurrentAlbumAlways(t, cursor) ==
    LET m == At(t, cursor)
        offset == Scan(t, m, cursor + 1, 0)
    IN  IF offset >= cursor
        THEN Media(m.ID \o "album", "CAROUSEL_ALBUM", m.Caption, m.TakenAt, "", "", "", "",
                   AlbumChildren(t, cursor, IF offset > cursor THEN offset ELSE cursor))
        ELSE m

\* The media Next makes current at the cursor.
Current(t, cursor) ==
    LET m == At(t, cursor)
        offset == Scan(t, m, cursor + 1, 0)
    IN  IF offset > cursor
        THEN Media(m.ID \o "album", "CAROUSEL_ALBUM", m.Caption, m.TakenAt, "", "", "", "",
                   AlbumChildren(t, cursor, offset))
        ELSE m

\* Variant of Advance: the cursor moves by one whatever the current media is.
AdvanceByOne(cursor, current) == IF current = NilMedia THEN cursor ELSE cursor + 1

\* The cursor moved past the current media.
Advance(cursor, current) ==
    IF current = NilMedia THEN cursor
    ELSE IF Len(current.Children) > 0 THEN cursor + Len(current.Children)
    ELSE cursor + 1

\* The first check of Next: it.err != nil.
FailedNever(err) == FALSE
Failed(err) == err # Nil

\* Next() is called again after it has returned false only MaxRecalls times.
MayCall == lastNext = "false" => recalls < MaxRecalls
Recalled == IF lastNext = "false" THEN recalls + 1 ELSE recalls

\* archive MediaIter.Next()
ArchNext ==
    /\ kind = "archive"
    /\ ipc = "iter"
    /\ MayCall
    /\ recalls' = Recalled
    /\ IF Failed(arErr) \/ iterCtxDone
       THEN /\ lastNext' = "false"
            /\ UNCHANGED <<arCursor, arCurrent, got>>
       ELSE LET cursor == Advance(arCursor, arCurrent)
            IN  /\ arCursor' = cursor
                /\ IF cursor >= Len(arTimeline)
                   THEN /\ lastNext' = "false"
                        /\ UNCHANGED <<arCurrent, got>>
                   ELSE /\ arCurrent' = Current(arTimeline, cursor)
                        /\ got' = Append(got, arCurrent')
                        /\ lastNext' = "true"
    /\ UNCHANGED <<dlVars, kind, manifest, arErr, arTimeline, pages, igErr, igCursor, igBatch,
                   igAfter, requests, fetches, iterCtxDone, ipc>>

\* The context given to List is cancelled.
IterCancel ==
    /\ kind # "none"
    /\ ~iterCtxDone
    /\ iterCtxDone' = TRUE
    /\ UNCHANGED <<dlVars, kind, manifest, arErr, arCursor, arCurrent, arTimeline, pages, igErr,
                   igCursor, igBatch, igAfter, requests, fetches, ipc, lastNext, got, recalls>>

\* The ids the API gives to media: the n-th medium of the account.
Digits == <<"0", "1", "2", "3", "4", "5", "6", "7", "8", "9">>
IgID(n) == "1785" \o Digits[((n \div 10) % 10) + 1] \o Digits[(n % 10) + 1]

\* instagram media: one entry of "data" in a page of the media endpoint. Of four media in
\* a row one is an image, one a video, one an album of an image, a video and a child
\* without media_type, and one comes without media_type.
RawChild(id, type) ==
    [ID |-> id, Type |-> type, URL |-> "https://cdn/" \o id,
     ThumbnailURL |-> IF type = "VIDEO" THEN "https://cdn/t" \o id ELSE ""]
RawItem(n) ==
    LET type == IF n % 4 = 1 THEN "IMAGE"
                ELSE IF n % 4 = 2 THEN "VIDEO"
                ELSE IF n % 4 = 3 THEN "CAROUSEL_ALBUM"
                ELSE ""
    IN  [ID |-> IgID(n), Type |-> type, Caption |-> "c", TakenAt |-> (n % 2) + 1,
         URL |-> "https://cdn/" \o IgID(n),
         ThumbnailURL |-> IF type = "VIDEO" THEN "https://cdn/t" \o IgID(n) ELSE "",
         Children |-> IF type = "CAROUSEL_ALBUM"
                      THEN << RawChild(IgID(n) \o "1", "IMAGE"), RawChild(IgID(n) \o "2", "VIDEO"),
                              RawChild(IgID(n) \o "3", "") >>
                      ELSE <<>>]

\* The pages the API serves for page lengths lens: the media of the account in order.
RECURSIVE Sum(_)
Sum(lens) == IF lens = <<>> THEN 0 ELSE lens[1] + Sum(Tail(lens))
PagesOf(lens) ==
    [k \in 1..Len(lens) |->
        [i \in 1..lens[k] |-> RawItem(Sum(SubSeq(lens, 1, k - 1)) + i)]]
PagePool ==
    UNION { { PagesOf(lens) : lens \in [1..n -> 0..MaxPageLen] } : n \in 1..MaxPages }

\* The file names List gives to a medium of type type published at takenAt.
IgFilenameJpg(type, takenAt, id) == Format200601(takenAt) \o id \o ".jpg"
IgFilename(type, takenAt, id) ==
    IF type \in {"IMAGE", "CAROUSEL_ALBUM"} THEN Format200601(takenAt) \o id \o ".jpg"
    ELSE IF type = "VIDEO" THEN Format200601(takenAt) \o id \o ".mp4"
    ELSE ""
IgThumbnailFilename(type, takenAt, id) ==
    IF type = "VIDEO" THEN Format200601(takenAt) \o id \o "_cover.jpg" ELSE ""

\* mm[i].Children[j]: a child has no caption and no publish date of its own.
IgChildOwnDate(c, takenAt) ==
    Media(c.ID, c.Type, "", 0, c.URL, c.ThumbnailURL,
          IgFilename(c.Type, 0, c.ID), IgThumbnailFilename(c.Type, 0, c.ID), <<>>)
IgChild(c, takenAt) ==
    Media(c.ID, c.Type, "", 0, c.URL, c.ThumbnailURL,
          IgFilename(c.Type, takenAt, c.ID), IgThumbnailFilename(c.Type, takenAt, c.ID), <<>>)

\* mm[i]
IgMedia(raw) ==
    Media(raw.ID, raw.Type, raw.Caption, raw.TakenAt, raw.URL, raw.ThumbnailURL,
          IgFilename(raw.Type, raw.TakenAt, raw.ID),
          IgThumbnailFilename(raw.Type, raw.TakenAt, raw.ID),
          [j \in 1..Len(raw.Children) |-> IgChild(raw.Children[j], raw.TakenAt)])

\* The page the API answers with: the first one when "after" is not set or empty.
PageIndex(after) == IF ~after.set \/ after.val = 0 THEN 1 ELSE after.val

\* paging.cursors.after of page k: empty on the last page.
PageAfter(ps, k) == IF k >= Len(ps) THEN 0 ELSE k + 1

\* fetch stops the iterator when the next pagination token is empty.
FetchNeverStops(after) == FALSE
FetchStops(after) == after.set /\ after.val = 0

\* NewRequest or Do failed: fetch returns the error of the request for the page before
\* queryParams.Set("after", ...).
FetchFaultAdvances(after, ps) ==
    [batch |-> <<>>, err |-> Err("fetch", Digits[PageIndex(after) + 1]),
     after |-> AfterParam(TRUE, PageAfter(ps, PageIndex(after))), req |-> 1]
FetchFault(after, ps) ==
    [batch |-> <<>>, err |-> Err("fetch", Digits[PageIndex(after) + 1]), after |-> after,
     req |-> 1]

\* The page was received: its cursor is kept and its media are built.
FetchPage(after, ps) ==
    LET k == PageIndex(after)
    IN  [batch |-> [i \in 1..Len(ps[k]) |-> IgMedia(ps[k][i])], err |-> Nil,
         after |-> AfterParam(TRUE, PageAfter(ps, k)), req |-> 1]

\* What one call of the fetch closure does. A request fails when the context is done,
\* and may fail at any time (server timeout).
FetchOutcomes(after, ps, done) ==
    IF FetchStops(after) THEN { [batch |-> <<>>, err |-> Nil, after |-> after, req |-> 0] }
    ELSE { FetchFault(after, ps) } \cup (IF done THEN {} ELSE { FetchPage(after, ps) })

\* instagram MediaService.List(ctx): only builds the iterator.
IgList ==
    /\ kind = "instagram"
    /\ ipc = "list"
    /\ ipc' = "iter"
    /\ UNCHANGED <<dlVars, kind, manifest, arErr, arCursor, arCurrent, arTimeline, pages, igErr,
                   igCursor, igBatch, igAfter, requests, fetches, iterCtxDone, lastNext, got,
                   recalls>>

\* Variant of NeedFetch: the next page is fetched one media early.
NeedFetchEarly(cursor, batch) == cursor + 1 >= Len(batch) - 1

\* mi.cursor >= len(mi.batch)-1
NeedFetch(cursor, batch) == cursor >= Len(batch) - 1

\* Variant of IgNext: the cursor is not set back to 0 when a page is fetched.
IgNextNoReset ==
    /\ kind = "instagram"
    /\ ipc = "iter"
    /\ MayCall
    /\ recalls' = Recalled
    /\ IF Failed(igErr)
       THEN /\ lastNext' = "false"
            /\ UNCHANGED <<igErr, igCursor, igBatch, igAfter, requests, fetches, got>>
       ELSE IF NeedFetch(igCursor, igBatch)
       THEN \E o \in FetchOutcomes(igAfter, pages, iterCtxDone) :
                /\ igCursor' = igCursor
                /\ igBatch' = o.batch
                /\ igErr' = o.err
                /\ igAfter' = o.after
                /\ requests' = requests + o.req
                /\ fetches' = fetches + 1
                /\ IF o.err # Nil \/ Len(o.batch) = 0
                   THEN /\ lastNext' = "false"
                        /\ got' = got
                   ELSE /\ lastNext' = "true"
                        /\ got' = Append(got, At(o.batch, 0))
       ELSE /\ igCursor' = igCursor + 1
            /\ lastNext' = "true"
            /\ got' = Append(got, At(igBatch, igCursor'))
            /\ UNCHANGED <<igErr, igBatch, igAfter, requests, fetches>>
    /\ UNCHANGED <<dlVars, kind, manifest, arErr, arCursor, arCurrent, arTimeline, pages,
                   iterCtxDone, ipc>>

\* instagram MediaIter.Next()
IgNext ==
    /\ kind = "instagram"
    /\ ipc = "iter"
    /\ MayCall
    /\ recalls' = Recalled
    /\ IF Failed(igErr)
       THEN /\ lastNext' = "false"
            /\ UNCHANGED <<igErr, igCursor, igBatch, igAfter, requests, fetches, got>>
       ELSE IF NeedFetch(igCursor, igBatch)
       THEN \E o \in FetchOutcomes(igAfter, pages, iterCtxDone) :
                /\ igCursor' = 0
                /\ igBatch' = o.batch
                /\ igErr' = o.err
                /\ igAfter' = o.after
                /\ requests' = requests + o.req
                /\ fetches' = fetches + 1
                /\ IF o.err # Nil \/ Len(o.batch) = 0
                   THEN /\ lastNext' = "false"
                        /\ got' = got
                   ELSE /\ lastNext' = "true"
                        /\ got' = Append(got, At(o.batch, 0))
       ELSE /\ igCursor' = igCursor + 1
            /\ lastNext' = "true"
            /\ got' = Append(got, At(igBatch, igCursor'))
            /\ UNCHANGED <<igErr, igBatch, igAfter, requests, fetches>>
    /\ UNCHANGED <<dlVars, kind, manifest, arErr, arCursor, arCurrent, arTimeline, pages,
                   iterCtxDone, ipc>>

\* An archive or an account, and an iterator about to be built for it.
InitIter ==
    /\ DlIdle
    /\ IterStart
    /\ kind \in {"archive", "instagram"}
    /\ IF kind = "archive"
       THEN /\ manifest \in ManifestPool
            /\ pages = <<>>
       ELSE /\ manifest = Manifest(FALSE, FALSE, {})
            /\ pages \in PagePool

NextIter ==
    \/ ArchList
    \/ ArchNext
    \/ IgList
    \/ IgNext
    \/ IterCancel

SpecIter == InitIter /\ [][NextIter]_vars

(***************************************************************************)
(* The iterator contract                                                   *)
(***************************************************************************)

\* Err() of the iterator looked at.
IterErr == IF kind = "archive" THEN arErr ELSE igErr

\* C11: once Err() is non-nil (archive or instagram iterator), every later step leaves
\* Err() the same error, no call of Next() returns true or yields a media, and the
\* instagram iterator's fetch closure is not called again (no page request either).
C11_StickyError ==
    [][IterErr # Nil =>
        /\ IterErr' = IterErr
        /\ lastNext' # "true"
        /\ got' = got
        /\ fetches' = fetches
        /\ requests' = requests]_vars

\* Next() was called again after a page request of the instagram iterator had failed on
\* a later page, media of the first page having been yielded.
C11_Witness ==
    /\ kind = "instagram"
    /\ igErr # Nil
    /\ requests >= 2
    /\ Len(got) >= 1
    /\ recalls >= 1

\* The media of the source that one yielded medium covers: an album rebuilt by the archive
\* iterator covers its children, any other medium covers itself.
RECURSIVE Covered(_)
Covered(g) ==
    IF g = <<>> THEN 0
    ELSE (IF kind = "archive" /\ Len(g[1].Children) > 0 THEN Len(g[1].Children) ELSE 1)
            + Covered(Tail(g))

\* The media of the source: the entries of media.json, or the media of all pages.
SourceSize ==
    IF kind = "archive" THEN Cardinality(manifest.entries)
    ELSE Sum([k \in 1..Len(pages) |-> Len(pages[k])])

\* C12: whenever the last Next() returned false and Err() is nil, every medium of the
\* source has been yielded, whatever happened to the context.
C12_FalseMeansDone ==
    (ipc = "iter" /\ lastNext = "false" /\ IterErr = Nil) => Covered(got) = SourceSize

\* The media of all pages in the order the API serves them, as List builds them.
RECURSIVE Flat(_)
Flat(ps) ==
    IF ps = <<>> THEN <<>>
    ELSE [i \in 1..Len(ps[1]) |-> IgMedia(ps[1][i])] \o Flat(Tail(ps))

IsPrefix(s, t) == Len(s) <= Len(t) /\ s = SubSeq(t, 1, Len(s))

\* C13: for every sequence of pages of which only the last has an empty
\* after-cursor, Next() returns true once per medium of the pages, in order, and the
\* first false with Err() nil comes after sum(len(page)) of them.
C13_PageCount ==
    kind = "instagram" =>
        /\ IsPrefix(got, Flat(pages))
        /\ (lastNext = "false" /\ recalls = 0 /\ igErr = Nil) => Len(got) = SourceSize

\* The last page response carried an empty after-cursor.
AfterEmpty == igAfter.set /\ igAfter.val = 0

\* C14: once a page response with an empty after-cursor has been received, no step sends
\* another page request or changes the cursor, Err() stays nil, and a call of Next() made
\* when the batch is used up returns false and yields nothing.
C14_NoRequestAfterLastPage ==
    [][(kind = "instagram" /\ AfterEmpty) =>
        /\ requests' = requests
        /\ igAfter' = igAfter
        /\ igErr' = Nil
        /\ NeedFetch(igCursor, igBatch) =>
            /\ got' = got
            /\ fetches' # fetches => lastNext' = "false"]_vars

\* All of at least two pages were requested and yielded, Next() returned false and was
\* called again.
C14_Witness ==
    /\ kind = "instagram"
    /\ AfterEmpty
    /\ Len(pages) >= 2
    /\ requests = Len(pages)
    /\ fetches > requests + 1
    /\ Len(got) >= 2
    /\ lastNext = "false"
    /\ igErr = Nil

\* C15: the step in which a page request fails is a Next() that returns false; Err() is
\* the error of that request, the after-cursor is the one the request was sent with, and
\* the iterator holds no batch, so no medium is yielded or left as the current one.
C15_FetchFault ==
    [][(kind = "instagram" /\ igErr = Nil /\ igErr' # Nil) =>
        /\ lastNext' = "false"
        /\ igErr' = Err("fetch", Digits[PageIndex(igAfter) + 1])
        /\ igAfter' = igAfter
        /\ requests' = requests + 1
        /\ got' = got
        /\ igBatch' = <<>>
        /\ igCursor' = 0]_vars

\* The request for the second page failed after the media of the first page were yielded.
C15_Witness ==
    /\ kind = "instagram"
    /\ igErr = Err("fetch", Digits[3])
    /\ igAfter = AfterParam(TRUE, 2)
    /\ requests = 2
    /\ Len(got) = 2
    /\ lastNext = "false"
    /\ recalls = 0
    /\ ~iterCtxDone

(***************************************************************************)
(* Albums rebuilt from an archive                                          *)
(***************************************************************************)

\* What makes two entries of media.json parts of one post.
Key(m) == <<m.TakenAt, m.Caption>>

\* The runs of a timeline: a run starts where the key changes, and ends before the next
\* change.
Starts(t) == { i \in 1..Len(t) : i = 1 \/ Key(t[i - 1]) # Key(t[i]) }
RunEnd(t, i) ==
    CHOOSE j \in i..Len(t) :
        /\ \A k \in i..j : Key(t[k]) = Key(t[i])
        /\ j = Len(t) \/ Key(t[j + 1]) # Key(t[i])
NthStart(t, n) == CHOOSE s \in Starts(t) : Cardinality({ x \in Starts(t) : x <= s }) = n

\* The archive iterator ran to its end: no fault, no cancellation.
Drained ==
    /\ kind = "archive"
    /\ ipc = "iter"
    /\ lastNext = "false"
    /\ arErr = Nil
    /\ ~iterCtxDone

\* C16: the n-th medium yielded by the archive iterator stands for the n-th run of the
\* sorted timeline; a run of two or more entries is yielded as one CAROUSEL_ALBUM whose ID
\* is the first entry's ID followed by "album", whose Caption and TakenAt are the first
\* entry's, and whose Children are the run in timeline order; an iterator that ran to its
\* end has yielded one medium per run.
C16_AlbumPerRun ==
    kind = "archive" =>
        /\ Len(got) <= Cardinality(Starts(arTimeline))
        /\ Drained => Len(got) = Cardinality(Starts(arTimeline))
        /\ \A n \in 1..Len(got) :
            LET i == NthStart(arTimeline, n)
                j == RunEnd(arTimeline, i)
            IN  j > i =>
                    /\ got[n].Type = "CAROUSEL_ALBUM"
                    /\ got[n].ID = arTimeline[i].ID \o "album"
                    /\ got[n].Caption = arTimeline[i].Caption
                    /\ got[n].TakenAt = arTimeline[i].TakenAt
                    /\ got[n].Children = SubSeq(arTimeline, i, j)

\* The timeline [a(T,c), b(T,c), z(T2<T,x)] was yielded as [aalbum{a,b}, z].
C16_Witness ==
    /\ Drained
    /\ Len(arTimeline) = 3
    /\ arTimeline[1].ID = "a" /\ arTimeline[2].ID = "b" /\ arTimeline[3].ID = "z"
    /\ Key(arTimeline[1]) = <<2, "c">>
    /\ Key(arTimeline[2]) = <<2, "c">>
    /\ Key(arTimeline[3]) = <<1, "x">>
    /\ Len(got) = 2
    /\ got[1].ID = "aalbum"
    /\ got[1].Type = "CAROUSEL_ALBUM"
    /\ got[1].Children = SubSeq(arTimeline, 1, 2)
    /\ got[2] = arTimeline[3]
    /\ got[2].Type = "IMAGE"

\* C17: a run of one entry is yielded as that very leaf (same ID, Type IMAGE or VIDEO, no
\* Children), and the entries put in one album all share both TakenAt and Caption:
\* sharing only one of them never groups entries.
C17_LeafUnchanged ==
    kind = "archive" =>
        /\ Len(got) <= Cardinality(Starts(arTimeline))
        /\ \A n \in 1..Len(got) :
            LET i == NthStart(arTimeline, n)
            IN  /\ RunEnd(arTimeline, i) = i =>
                    /\ got[n] = arTimeline[i]
                    /\ got[n].Type \in {"IMAGE", "VIDEO"}
                    /\ got[n].Children = <<>>
                /\ \A c, d \in 1..Len(got[n].Children) :
                    /\ got[n].Children[c].TakenAt = got[n].Children[d].TakenAt
                    /\ got[n].Children[c].Caption = got[n].Children[d].Caption

\* Three entries, two of them with the same TakenAt but other captions and two with the
\* same caption but other TakenAt, were yielded as three leaves.
C17_Witness ==
    /\ Drained
    /\ Len(arTimeline) = 3
    /\ arTimeline[1].TakenAt = arTimeline[2].TakenAt
    /\ arTimeline[1].Caption # arTimeline[2].Caption
    /\ arTimeline[2].Caption = arTimeline[3].Caption
    /\ arTimeline[2].TakenAt # arTimeline[3].TakenAt
    /\ got = arTimeline
    /\ \E n \in 1..3 : got[n].Type = "VIDEO"

\* The IDs of a materialized timeline: each medium's, followed by its children's.
RECURSIVE AllIDs(_)
AllIDs(g) ==
    IF g = <<>> THEN <<>>
    ELSE <<g[1].ID>> \o [c \in 1..Len(g[1].Children) |-> g[1].Children[c].ID] \o AllIDs(Tail(g))

\* C18: the entries of media.json having pairwise distinct IDs, the IDs of the media the
\* archive iterator has yielded (leaves, rebuilt albums and their children) are pairwise
\* distinct.
C18_UniqueIDs ==
    kind = "archive" =>
        \A i, j \in 1..Len(AllIDs(got)) : AllIDs(got)[i] = AllIDs(got)[j] => i = j

(***************************************************************************)
(* Order of an archive's timeline                                          *)
(***************************************************************************)

\* The children of a medium are entries of the timeline next to each other, in its order.
IsSlice(children, t) ==
    \E i \in 1..Len(t) : children = SubSeq(t, i, i + Len(children) - 1)

\* C19: whatever the order of the entries in media.json, each medium yielded by
\* the archive iterator has a TakenAt strictly later than the next one's, and the children
\* of an album are in the order of the sorted timeline.
C19_StrictlyDescending ==
    kind = "archive" =>
        /\ \A n \in 1..(Len(got) - 1) : got[n].TakenAt > got[n + 1].TakenAt
        /\ \A n \in 1..Len(got) :
            Len(got[n].Children) > 0 => IsSlice(got[n].Children, arTimeline)

\* C19 amended: each medium yielded by the archive iterator has a TakenAt later than or
\* equal to the next one's, two media yielded one after the other with the same TakenAt
\* differ in Caption, and the children of an album are in the order of the sorted
\* timeline.
C19_Descending ==
    kind = "archive" =>
        /\ \A n \in 1..(Len(got) - 1) :
            /\ got[n].TakenAt >= got[n + 1].TakenAt
            /\ got[n].TakenAt = got[n + 1].TakenAt => got[n].Caption # got[n + 1].Caption
        /\ \A n \in 1..Len(got) :
            Len(got[n].Children) > 0 => IsSlice(got[n].Children, arTimeline)

\* A video listed after the photos in media.json came first; the media yielded were an
\* album of the video and a photo, then a leaf of the same TakenAt and another caption.
C19_Witness ==
    /\ Drained
    /\ Cardinality(manifest.entries) = 3
    /\ arTimeline[1].Type = "VIDEO"
    /\ Len(got) = 2
    /\ Len(got[1].Children) = 2
    /\ got[1].TakenAt = got[2].TakenAt
    /\ got[1].Caption # got[2].Caption

\* C20: List on an archive whose media.json is absent or lists no entries gives an
\* iterator with Err() non-nil, whose Next() never returns true.
C20_EmptyIsFault ==
    (kind = "archive" /\ ipc = "iter" /\ (~manifest.found \/ manifest.entries = {})) =>
        /\ arErr # Nil
        /\ lastNext # "true"

\* C20 amended: List on an archive whose media.json is absent or cannot be decoded gives
\* an iterator with Err() non-nil; on an archive whose media.json decodes and lists no
\* entries it gives an iterator with Err() nil; in both cases Next() never returns true.
C20_AbsentIsFault ==
    (kind = "archive" /\ ipc = "iter") =>
        /\ (~manifest.found \/ ~manifest.decodes) =>
            /\ arErr # Nil
            /\ lastNext # "true"
            /\ got = <<>>
        /\ (manifest.found /\ manifest.decodes /\ manifest.entries = {}) =>
            /\ arErr = Nil
            /\ lastNext # "true"
            /\ got = <<>>

\* Next() was called on the iterator of an archive without media.json.
C20_Witness ==
    /\ kind = "archive"
    /\ ~manifest.found
    /\ arErr = Err("notfound", "media.json")
    /\ lastNext = "false"
    /\ ~iterCtxDone

(***************************************************************************)
(* File names given by the instagram source                                *)
(***************************************************************************)

\* The media of all pages as the API serves them.
RECURSIVE RawFlat(_)
RawFlat(ps) == IF ps = <<>> THEN <<>> ELSE ps[1] \o RawFlat(Tail(ps))

\* C21: every child of a yielded instagram medium has the Filename made of the parent's
\* year and month, its ID and the extension of its type, and has no ThumbnailFilename.
C21_ChildNoThumbnail ==
    kind = "instagram" =>
        \A n \in 1..Len(got) : \A j \in 1..Len(got[n].Children) :
            LET raw == RawFlat(pages)[n]
                c == raw.Children[j]
                m == got[n].Children[j]
            IN  /\ m.ID = c.ID /\ m.Type = c.Type
                /\ c.Type \in {"IMAGE", "CAROUSEL_ALBUM"} =>
                        m.Filename = Format200601(raw.TakenAt) \o c.ID \o ".jpg"
                /\ c.Type = "VIDEO" => m.Filename = Format200601(raw.TakenAt) \o c.ID \o ".mp4"
                /\ c.Type \notin {"IMAGE", "CAROUSEL_ALBUM", "VIDEO"} => m.Filename = ""
                /\ m.ThumbnailFilename = ""

\* C21 amended: every child of a yielded instagram medium has the Filename made of the
\* parent's year and month, its ID and the extension of its type, and has the
\* ThumbnailFilename made of the same prefix, its ID and "_cover.jpg" exactly when it is a
\* VIDEO.
C21_ChildLikeParent ==
    kind = "instagram" =>
        \A n \in 1..Len(got) : \A j \in 1..Len(got[n].Children) :
            LET raw == RawFlat(pages)[n]
                c == raw.Children[j]
                m == got[n].Children[j]
            IN  /\ m.ID = c.ID /\ m.Type = c.Type
                /\ c.Type \in {"IMAGE", "CAROUSEL_ALBUM"} =>
                        m.Filename = Format200601(raw.TakenAt) \o c.ID \o ".jpg"
                /\ c.Type = "VIDEO" => m.Filename = Format200601(raw.TakenAt) \o c.ID \o ".mp4"
                /\ c.Type \notin {"IMAGE", "CAROUSEL_ALBUM", "VIDEO"} => m.Filename = ""
                /\ m.ThumbnailFilename =
                        IF c.Type = "VIDEO"
                        THEN Format200601(raw.TakenAt) \o c.ID \o "_cover.jpg"
                        ELSE ""

\* An album of the API with an image child and a video child was yielded.
C21_Witness ==
    /\ kind = "instagram"
    /\ \E n \in 1..Len(got) :
        /\ got[n].Type = "CAROUSEL_ALBUM"
        /\ Len(got[n].Children) = 3
        /\ got[n].Children[1].Type = "IMAGE"
        /\ got[n].Children[1].Filename = "202010_178503" \o "1.jpg"
        /\ got[n].Children[2].Type = "VIDEO"
        /\ got[n].Children[2].ThumbnailFilename = "202010_1785032_cover.jpg"

\* C22: every yielded instagram medium has the Filename made of the year and month of its
\* TakenAt, its ID and ".jpg" (IMAGE, CAROUSEL_ALBUM) or ".mp4" (VIDEO); it has the
\* ThumbnailFilename prefix + ID + "_cover.jpg" exactly when it is a VIDEO; a medium of
\* another type has neither.
C22_TopLevelNames ==
    kind = "instagram" =>
        \A n \in 1..Len(got) :
            LET raw == RawFlat(pages)[n]
                m == got[n]
            IN  /\ m.ID = raw.ID /\ m.Type = raw.Type /\ m.TakenAt = raw.TakenAt
                /\ raw.Type \in {"IMAGE", "CAROUSEL_ALBUM"} =>
                        m.Filename = Format200601(raw.TakenAt) \o raw.ID \o ".jpg"
                /\ raw.Type = "VIDEO" =>
                        m.Filename = Format200601(raw.TakenAt) \o raw.ID \o ".mp4"
                /\ raw.Type \notin {"IMAGE", "CAROUSEL_ALBUM", "VIDEO"} => m.Filename = ""
                /\ m.ThumbnailFilename # "" <=> raw.Type = "VIDEO"
                /\ raw.Type = "VIDEO" =>
                        m.ThumbnailFilename =
                            Format200601(raw.TakenAt) \o raw.ID \o "_cover.jpg"

\* An image, a video, an album and a medium without type were yielded.
C22_Witness ==
    /\ kind = "instagram"
    /\ Len(got) >= 4
    /\ got[1].Type = "IMAGE" /\ got[1].Filename = "202010_178501.jpg"
    /\ got[2].Type = "VIDEO" /\ got[2].Filename = "202009_178502.mp4"
    /\ got[2].ThumbnailFilename = "202009_178502_cover.jpg"
    /\ got[3].Type = "CAROUSEL_ALBUM" /\ got[3].Filename = "202010_178503.jpg"
    /\ got[4].Type = "" /\ got[4].Filename = ""

(***************************************************************************)
(* The download stage of a run                                             *)
(***************************************************************************)

\* The media handed to workers, held by the main goroutine, and waiting in mediac, in
\* the order they were sent.
Sent ==
    [k \in 1..Len(workers) |-> workers[k].m]
        \o (IF pc = "Acquire" THEN <<cur>> ELSE <<>>)
        \o mediac

\* C23: when Download has returned after the download stage began, with nil or with an
\* error, the enqueue goroutine and every worker started have returned, mediac is empty
\* and sem holds no token.
C23_AllReleased ==
    (pc = "Done" /\ enqState # "off") =>
        /\ enqState = "done"
        /\ \A k \in DOMAIN workers : workers[k].pc = "done"
        /\ mediac = <<>>
        /\ sem = 0

\* Download has returned an error after three workers had run one at a time.
C23_Witness ==
    /\ pc = "Done"
    /\ maxWorkers = 1
    /\ Len(workers) >= 3
    /\ ret # Nil
    /\ sem = 0

\* C24: a worker whose media has an empty Filename calls ig.Download never and writes
\* no file; when Download returns nil every media and every child of the timeline,
\* those of a media without Filename included, was given to a worker of its own.
C24_NoFileUnit ==
    /\ \A k \in DOMAIN workers :
        workers[k].m.Filename = "" => (workers[k].fetch = "none" /\ workers[k].wrote = {})
    /\ (pc = "Done" /\ enqState # "off" /\ ret = Nil) =>
        [k \in 1..Len(workers) |-> workers[k].m] = Units(timeline)

\* An album made by the archive source went through a worker, and both of its children
\* were downloaded.
C24_Witness ==
    /\ pc = "Done"
    /\ ret = Nil
    /\ Len(workers) >= 3
    /\ workers[1].m.Filename = ""
    /\ workers[1].pc = "done"
    /\ workers[2].m = workers[1].m.Children[1]
    /\ workers[3].m = workers[1].m.Children[2]
    /\ workers[2].wrote # {}
    /\ workers[3].wrote # {}

\* C25: the media given to workers, followed by the one the main goroutine holds and by
\* those waiting in mediac, are the first work units of the timeline in its iteration
\* order: each media, then its children in Children order, then the next media.
C25_EnqueueOrder ==
    enqState # "off" => IsPrefix(Sent, Units(timeline))

\* The second child of an album waits in mediac while the main goroutine holds the first
\* child and the album itself went to a worker.
C25_Witness ==
    /\ pc = "Acquire"
    /\ Len(workers) = 1
    /\ Len(workers[1].m.Children) = 2
    /\ cur = workers[1].m.Children[1]
    /\ mediac # <<>>
    /\ Head(mediac) = workers[1].m.Children[2]

\* C26: each work unit of the timeline has at most one worker, and a worker calls
\* ig.Download at most once: a worker that is at or before the call has not made it,
\* whether or not the call fails.
C26_NoRetry ==
    /\ Len(workers) <= Len(Units(timeline))
    /\ \A k \in DOMAIN workers :
        /\ workers[k].m = Units(timeline)[k]
        /\ workers[k].pc \in {"start", "fetch"} => workers[k].fetch = "none"

\* Download has returned nil after a fetch failed and the two other units were fetched.
C26_Witness ==
    /\ pc = "Done"
    /\ ret = Nil
    /\ Len(workers) = 3
    /\ workers[1].fetch = "err"
    /\ workers[2].fetch = "ok"
    /\ workers[3].fetch = "ok"

\* C27: a worker writes only after a successful fetch; a worker that returned nil after
\* a successful fetch wrote the content file <Filename>, and the thumbnail file
\* <ThumbnailFilename> exactly when ig.Download returned a thumbnail; the thumbnail is
\* written after the content, and not at all when the content write failed.
C27_Writes ==
    \A k \in DOMAIN workers :
        LET w == workers[k]
        IN  /\ w.fetch # "ok" => w.wrote = {}
            /\ (w.pc = "done" /\ w.fetch = "ok" /\ w.err = Nil) =>
                    w.wrote = {w.m.Filename}
                                \cup (IF w.thumb THEN {w.m.ThumbnailFilename} ELSE {})
            /\ w.wrote \subseteq {w.m.Filename, w.m.ThumbnailFilename}
            /\ (w.wrote \ {w.m.Filename}) # {} => (w.thumb /\ w.m.Filename \in w.wrote)
            /\ w.err.kind = "content" => w.wrote = {}
            /\ w.err.kind = "thumbnail" => w.wrote = {w.m.Filename}
            /\ w.pc = "thumb" => w.wrote = {w.m.Filename}

\* A video was written with its cover, and an image without one.
C27_Witness ==
    /\ pc = "Done"
    /\ \E j, k \in DOMAIN workers :
        /\ workers[j].thumb
        /\ workers[j].wrote = {workers[j].m.Filename, workers[j].m.ThumbnailFilename}
        /\ Cardinality(workers[j].wrote) = 2
        /\ workers[k].fetch = "ok"
        /\ ~workers[k].thumb
        /\ workers[k].wrote = {workers[k].m.Filename}

(***************************************************************************)
(* Nothing lost, nothing twice                                             *)
(***************************************************************************)

\* The entries behind the media yielded: the children of an album, the leaf itself.
RECURSIVE Expand(_)
Expand(g) ==
    IF g = <<>> THEN <<>>
    ELSE (IF Len(g[1].Children) > 0 THEN g[1].Children ELSE <<g[1]>>) \o Expand(Tail(g))

\* C28: the leaves and the albums' children yielded by the archive iterator, put one
\* after the other in yield order, are the first entries of the sorted timeline, each
\* once and in order, and all of them once the iterator has run to its end.
C28_NothingLost ==
    kind = "archive" =>
        /\ IsPrefix(Expand(got), arTimeline)
        /\ Drained => Expand(got) = arTimeline

\* A leaf and then an album of two were yielded from a timeline of three entries.
C28_Witness ==
    /\ Drained
    /\ Len(arTimeline) = 3
    /\ Len(got) = 2
    /\ got[1] = arTimeline[1]
    /\ got[2].Children = SubSeq(arTimeline, 2, 3)
    /\ arCursor >= 3

\* Every page carries at least one medium.
PagesFilled == \A k \in 1..Len(pages) : Len(pages[k]) > 0

\* The lengths of the first n pages.
PageLens(n) == [k \in 1..n |-> Len(pages[k])]

\* C29: when every page carries media, the k-th Next() that returned true left as Media()
\* the k-th medium of the pages put one after the other in fetch order, the cursor
\* counting from 0 within the page fetched last; nothing is skipped or yielded twice,
\* and a false with Err() nil comes after the last medium of the last page.
C29_PageBoundary ==
    (kind = "instagram" /\ PagesFilled) =>
        /\ IsPrefix(got, Flat(pages))
        /\ lastNext = "true" =>
            /\ requests \in 1..Len(pages)
            /\ Len(got) = Sum(PageLens(requests - 1)) + igCursor + 1
            /\ At(igBatch, igCursor) = Flat(pages)[Len(got)]
            /\ got[Len(got)] = At(igBatch, igCursor)
        /\ (lastNext = "false" /\ igErr = Nil) => got = Flat(pages)

\* The first medium of the third page is the current one, after a page of one and a page
\* of two media.
C29_Witness ==
    /\ kind = "instagram"
    /\ Len(pages) = 3
    /\ Len(pages[1]) = 1
    /\ Len(pages[2]) = 2
    /\ Len(pages[3]) = 2
    /\ lastNext = "true"
    /\ requests = 3
    /\ igCursor = 0
    /\ Len(got) = 4

\* C30: once Next() has returned false with Err() nil, no later call of Next() returns
\* true, whatever the source answers.
C30_ExhaustionFinal ==
    [][(ipc = "iter" /\ lastNext = "false" /\ IterErr = Nil) => lastNext' # "true"]_vars

(***************************************************************************)
(* The current media                                                       *)
(***************************************************************************)

\* C36: right after a Next() that returned true the cursor designates an element: for
\* the instagram iterator 0 <= cursor < len(batch), for the archive iterator
\* cursor < len(timeline) and current is not nil; Media() is then the media yielded.
C36_CurrentValid ==
    (ipc = "iter" /\ lastNext = "true") =>
        IF kind = "instagram"
        THEN /\ 0 <= igCursor
             /\ igCursor < Len(igBatch)
             /\ At(igBatch, igCursor) = got[Len(got)]
        ELSE /\ 0 <= arCursor
             /\ arCursor < Len(arTimeline)
             /\ arCurrent # NilMedia
             /\ arCurrent = got[Len(got)]

\* The last medium of a second page of two media is the current one.
C36_Witness ==
    /\ kind = "instagram"
    /\ lastNext = "true"
    /\ requests = 2
    /\ Len(igBatch) = 2
    /\ igCursor = 1
    /\ Len(got) >= 3

\* C37: of everything the archive iterator yields, only a CAROUSEL_ALBUM has Children,
\* an album has at least two, a child is an IMAGE or a VIDEO without Children, and an
\* album's TakenAt and Caption are those of its first child.
C37_Shape ==
    kind = "archive" =>
        \A n \in 1..Len(got) :
            LET m == got[n]
            IN  /\ Len(m.Children) > 0 => m.Type = "CAROUSEL_ALBUM"
                /\ m.Type = "CAROUSEL_ALBUM" =>
                    /\ Len(m.Children) >= 2
                    /\ m.TakenAt = m.Children[1].TakenAt
                    /\ m.Caption = m.Children[1].Caption
                /\ \A c \in 1..Len(m.Children) :
                    /\ m.Children[c].Children = <<>>
                    /\ m.Children[c].Type \in {"IMAGE", "VIDEO"}

\* An album of three entries was yielded.
C37_Witness ==
    /\ kind = "archive"
    /\ Len(got) = 1
    /\ got[1].Type = "CAROUSEL_ALBUM"
    /\ Len(got[1].Children) = 3
    /\ lastNext = "false"

(***************************************************************************)
(* The worker pool                                                         *)
(***************************************************************************)

\* The main goroutine waits at s.sem <- token{}.
BlockedOnSem == pc = "Acquire" /\ ~CanAcquire(sem, maxWorkers)

\* C32: with maxWorkers = 0 no state is reached in which the main goroutine waits to
\* put a token in sem while no worker is there to take one out.
C32_NoPermitDeadlock ==
    maxWorkers = 0 => ~(BlockedOnSem /\ InFlight = {})

\* The existence check of the worker would skip m.
Skipped(m) == Stat(DiskAtStart, m.Filename).kind = "EEXIST"

\* C33: when Download has returned from a run without cancellation and without write
\* fault, the media given to workers are the work units of the persisted timeline, each
\* once and in order, and ig.Download was called by exactly the workers whose media has
\* a Filename and is not skipped by the existence check.
C33_Coverage ==
    (pc = "Done" /\ Persisted /\ ~cancelled /\ \A k \in DOMAIN workers : ~WriteFault(k)) =>
        /\ stored = <<timeline>>
        /\ [k \in 1..Len(workers) |-> workers[k].m] = Units(timeline)
        /\ \A k \in DOMAIN workers :
            /\ workers[k].pc = "done"
            /\ workers[k].fetch # "none" <=>
                    (workers[k].m.Filename # "" /\ ~Skipped(workers[k].m))

\* A run over an album without file, its two children and one more media has returned.
C33_Witness ==
    /\ pc = "Done"
    /\ ~cancelled
    /\ ret = Nil
    /\ Len(workers) = 4
    /\ workers[1].fetch = "none"
    /\ \A k \in 2..4 : workers[k].fetch # "none"

\* Work units sent by the enqueue goroutine whose worker has not returned.
Unfinished == Len(Sent) - Cardinality({ k \in DOMAIN workers : workers[k].pc = "done" })

\* C34: with worker limit n >= 1 the units sent whose worker has not returned are at most
\* 2n + 1: at most n in mediac, one held by the main goroutine, at most n with workers.
C34_Backpressure ==
    maxWorkers >= 1 =>
        /\ Len(mediac) <= maxWorkers
        /\ Cardinality(InFlight) <= maxWorkers
        /\ Unfinished <= 2 * maxWorkers + 1

\* n = 1: one unit in mediac, one held by the main goroutine, one with a worker, and the
\* enqueue goroutine has a fourth to send.
C34_Witness ==
    /\ maxWorkers = 1
    /\ Unfinished = 3
    /\ Len(mediac) = 1
    /\ EnqPending
    /\ ~CanSend(mediac, maxWorkers)
    /\ Cardinality(InFlight) = 1

\* C35: db.Store is never called with a part of the archive's timeline: what is stored
\* is the complete timeline.
C35_NoTruncatedStore ==
    source = "archive" => \A i \in 1..Len(stored) : stored[i] = src

(***************************************************************************)
(* Termination                                                             *)
(***************************************************************************)

\* A step of Download's goroutines: the main goroutine, the enqueue goroutine, a worker.
\* The signal and a second run of the program are the environment's.
Progress ==
    \/ List
    \/ IterNext
    \/ ListAppend
    \/ ListErr
    \/ Store
    \/ EnqSend
    \/ EnqHandoff
    \/ EnqCancel
    \/ EnqReturn
    \/ Recv
    \/ RangeEnd
    \/ Acquire
    \/ Wait
    \/ \E k \in DOMAIN workers : WStart(k)
    \/ \E k \in DOMAIN workers : WFetch(k)
    \/ \E k \in DOMAIN workers : WWriteContent(k)
    \/ \E k \in DOMAIN workers : WWriteThumb(k)

\* The Go scheduler runs a goroutine that can take a step: Download does not stand still
\* while one of its goroutines is runnable. Every call returns: each action is one step.
FairSpec == Init /\ [][Next]_vars /\ WF_vars(Progress)

\* C31: with worker limit n >= 1 a Download that has not returned eventually returns.
C31_Terminates == (maxWorkers >= 1 /\ pc # "Done") ~> (pc = "Done")

\* Download returned after a cancellation and a failed write, having started workers.
C31_Witness ==
    /\ maxWorkers >= 1
    /\ pc = "Done"
    /\ cancelled
    /\ workers # <<>>
    /\ \E k \in DOMAIN workers : WriteFault(k)
    /\ ret # Nil

====
